---- MODULE Spec2Model ----
(***************************************************************************)
(* HttpGetReader (src/unnamed/part_002, lines 1-320) and                   *)
(* PagedHttpGetReader (src/src/pagedHttpGetReader.ts) as one state machine.*)
(*                                                                         *)
(* The streamer is a Readable: the consumer pulls (_read), the transport   *)
(* (the `request` library) emits error/response/data/end/close on each     *)
(* request object, the optional Transform emits data/error/end/close/      *)
(* complete, and promises (retry, continuation) settle later.  Listener    *)
(* registration is counted per event as EventEmitter does: on() adds one   *)
(* instance, removeListener() removes one instance, emit() calls every     *)
(* instance registered when the emit starts.                               *)
(***************************************************************************)
EXTENDS Integers, Sequences, FiniteSets, TLC

\* ---------------------------------------------------------------- bounds
MaxRequests == 2
MaxChunks == 1
MaxPages == 2
MaxFaultFreeRequests == 3
MaxThrowRequests == 4
MaxRejectRequests == 3
MaxDeepPages == 3
MaxDeepRequests == 5
HighWaterMark == 1

\* ------------------------------------------------------------- constants
null == 0
StatusOK == 200
StatusNotFound == 404
StatusTooMany == 429
StatusOther == 500
CompleteResult == 7
CallerQuery == 1
CallerHeaders == 2

Statuses == {StatusOK, StatusNotFound, StatusTooMany, StatusOther}

VARIABLES
    kind,          \* "single" = HttpGetReader, "paged" = PagedHttpGetReader
    abortOnError,  \* options.abortOnError
    useTransform,  \* options.transform / options.transformFactory given
    lastPage,      \* the caller's nextPage returns false from this page on
    nextPageThrows, \* ... or throws there instead of returning false
    deferring,     \* options.responseHandler is a policy that answers with promises
    nextPageMutates, \* the caller's nextPage changes page.query in place and replaces page.headers
    request,       \* this.request: null or the index of a request in reqs
    transform,     \* this.transform (paged) / this.options.transform (single)
    desc,          \* this.url, this.query, this.headers (query and headers: objects of heap)
    heap,          \* the contents of every query or headers object, the caller's first
    readFired,     \* the once('read') listener has run
    reqs,          \* every request object issued so far, in order
    trs,           \* every Transform instance so far, in order
    out,           \* what the consumer has observed, in order
    ended,         \* Readable state: push(null) has been accepted
    crashed,       \* a handler threw out of an emit (uncaught exception)
    destroyed,     \* Readable state: destroy() has been called
    buffered,      \* Readable state: chunks pushed and not yet read by the consumer
    retries,       \* pending promises of the retry branch
    conts,         \* pending promises of proceedToNextPage
    contLog,       \* every invocation of nextPage: page url and data
    policyLog      \* every response classified: status and the outcome

cfgVars == <<kind, abortOnError, useTransform, lastPage, nextPageThrows, deferring,
             nextPageMutates>>
vars == <<kind, abortOnError, useTransform, lastPage, nextPageThrows, deferring,
          nextPageMutates, heap, request,
          transform, desc,
          readFired, reqs, trs, out, ended, crashed, destroyed, buffered, retries, conts,
          contLog,
          policyLog>>

\* The mutable state as one record, so that handlers compose as functions.
State ==
    [request |-> request, transform |-> transform, desc |-> desc, heap |-> heap,
     readFired |-> readFired, reqs |-> reqs, trs |-> trs, out |-> out,
     ended |-> ended, crashed |-> crashed, destroyed |-> destroyed,
     buffered |-> buffered,
     retries |-> retries,
     conts |-> conts, contLog |-> contLog, policyLog |-> policyLog]

Commit(t) ==
    /\ request' = t.request
    /\ transform' = t.transform
    /\ desc' = t.desc
    /\ heap' = t.heap
    /\ readFired' = t.readFired
    /\ reqs' = t.reqs
    /\ trs' = t.trs
    /\ out' = t.out
    /\ ended' = t.ended
    /\ crashed' = t.crashed
    /\ destroyed' = t.destroyed
    /\ buffered' = t.buffered
    /\ retries' = t.retries
    /\ conts' = t.conts
    /\ contLog' = t.contLog
    /\ policyLog' = t.policyLog
    /\ UNCHANGED cfgVars

\* ------------------------------------------------- events the consumer sees
ChunkEv(c) == [t |-> "chunk", v |-> c, m |-> ""]
EndEv == [t |-> "end", v |-> 0, m |-> ""]
ErrorEv(e) == [t |-> "error", v |-> e.v, m |-> e.m]

TransportErr == [v |-> 0, m |-> "transport"]
TransformErr == [v |-> 0, m |-> "transform"]
PromisedTrueErr == [v |-> 0, m |-> "responseHandler should not return promised true"]
PushAfterEofErr == [v |-> 0, m |-> "stream.push() after EOF"]
CancelErr == [v |-> 0, m |-> "cancelled"]
TimeoutErr == [v |-> 0, m |-> "timeout"]

\* Readable.push(chunk): after EOF the chunk is refused and an error is emitted.
\* An accepted chunk is added to the buffer the consumer reads from; the
\* handlers do not look at what push returns.
push(s, c) ==
    IF s.ended THEN [s EXCEPT !.out = Append(@, ErrorEv(PushAfterEofErr))]
    ELSE [s EXCEPT !.out = Append(@, ChunkEv(c)), !.buffered = @ + 1]

\* Readable.push(null): the first one ends the sequence, later ones are ignored.
pushNull(s) ==
    IF s.ended THEN s
    ELSE [s EXCEPT !.ended = TRUE, !.out = Append(@, EndEv)]

\* this.emit('error', error)
emitError(s, e) == [s EXCEPT !.out = Append(@, ErrorEv(e))]

\* A TypeError thrown inside a listener leaves the emit and is uncaught.
crash(s) == [s EXCEPT !.crashed = TRUE]

\* ------------------------------------------------ request and transform objects
NoListeners == [data |-> 0, error |-> 0, close |-> 0, end |-> 0, response |-> 0]
NoTransformListeners == [data |-> 0, error |-> 0, close |-> 0, end |-> 0, complete |-> 0]

\* removeListener(event, handler) removes at most one instance of the handler.
removeListener(n) == IF n > 0 THEN n - 1 ELSE 0

\* request(options): a new request object for url/qs/headers.  body is the
\* number of chunks the server will serve for it, ndata how many of them the
\* transport has delivered, retryOf the request it repeats (null if none).
NewRequest(d, body) ==
    [desc |-> d, on |-> NoListeners, pipes |-> {}, resp |-> null, body |-> body,
     ndata |-> 0, ended |-> FALSE, closed |-> FALSE, errored |-> FALSE,
     retryOf |-> null, destroyed |-> <<>>]

\* The place of a promise callback in the queue the callbacks run from: the
\* number of promises made so far.
Queued(s) == Len(s.policyLog) + Len(s.contLog)

\* A Transform instance: its input so far, whether end() was called, and what
\* it has emitted.
NewTransform ==
    [on |-> NoTransformListeners, written |-> <<>>, endCalled |-> FALSE,
     emitted |-> 0, endEmitted |-> FALSE, closeEmitted |-> FALSE,
     completeEmitted |-> FALSE, errored |-> FALSE]

\* The i-th body chunk of request r, and what the Transform makes of a chunk.
Chunk(r, i) == r * 10 + i
Transformed(c) == c + 100

\* transform.end(): end-of-input; calling it again changes nothing.
transformEnd(s, t) == [s EXCEPT !.trs[t].endCalled = TRUE]

\* =========================================================== HttpGetReader
Http_startRequest(s, body) ==
    LET r == Len(s.reqs) + 1
        q == [NewRequest(s.desc, body) EXCEPT !.on.error = @ + 1, !.on.close = @ + 1,
                                         !.on.response = @ + 1]
    IN [s EXCEPT !.reqs = Append(@, q), !.request = r]

Http_detachFromStreams(s) ==
    LET s1 == IF s.request # null
              THEN [s EXCEPT !.reqs[s.request].on =
                              [data |-> removeListener(@.data),
                               error |-> removeListener(@.error),
                               close |-> removeListener(@.close),
                               end |-> removeListener(@.end),
                               response |-> removeListener(@.response)],
                             !.request = null]
              ELSE s
    IN IF s1.transform # null
       THEN [s1 EXCEPT !.trs[s1.transform].on =
                        [data |-> removeListener(@.data),
                         error |-> removeListener(@.error),
                         close |-> removeListener(@.close),
                         end |-> removeListener(@.end),
                         complete |-> @.complete],
                       !.transform = null]
       ELSE s1

Mutant_Http_onRequestError(s, error) == emitError(s, error)

Http_onRequestError(s, error) ==
    IF abortOnError THEN emitError(s, error)
    ELSE IF s.transform = null THEN pushNull(Http_detachFromStreams(s))
    ELSE transformEnd(s, s.transform)

Http_onRequestClose(s) ==
    IF s.transform = null THEN pushNull(Http_detachFromStreams(s))
    ELSE transformEnd(s, s.transform)

Mutant_Http_onRequestEnd(s) ==
    IF s.transform = null THEN Http_detachFromStreams(s)
    ELSE transformEnd(s, s.transform)

Http_onRequestEnd(s) ==
    IF s.transform = null THEN pushNull(Http_detachFromStreams(s))
    ELSE transformEnd(s, s.transform)

\* Mutant: the raw chunk is pushed although a transform is attached.
Mutant_Http_onRequestData(s, chunk) == push(s, chunk)

Http_onRequestData(s, chunk) ==
    IF s.transform = null THEN push(s, chunk) ELSE s

Mutant_Http_onTransformError(s, error) ==
    IF s.transform = null THEN crash(s)
    ELSE transformEnd(s, s.transform)

Http_onTransformError(s, error) ==
    IF abortOnError THEN emitError(s, error)
    ELSE IF s.transform = null THEN crash(s)
    ELSE transformEnd(s, s.transform)

Http_onTransformClose(s) == Http_detachFromStreams(pushNull(s))

Http_onTransformEnd(s) == Http_detachFromStreams(pushNull(s))

Http_onTransformData(s, chunk) == push(s, chunk)

\* ------------------------------------------------------- response policy
\* The transport's response object carries the status (with message, headers
\* and HTTP version); reading a property it does not carry yields undefined.
Response(r, status) == [statusCode |-> status, request |-> r]
Property(obj, name) == IF name \in DOMAIN obj THEN obj[name] ELSE "undefined"

\* new Error(`HTTP ${response.method} request failed with ${response.statusCode}...`)
HttpError(response) ==
    [v |-> Property(response, "statusCode"), m |-> Property(response, "method")]

Returned(value) == [thrown |-> FALSE, value |-> value, error |-> TransportErr]
Thrown(error) == [thrown |-> TRUE, value |-> "undefined", error |-> error]

Mutant_defaultResponseHandler(response) ==
    IF response.statusCode = StatusOK
    THEN Returned("true")
    ELSE IF response.statusCode = StatusTooMany
    THEN Returned("false")
    ELSE Thrown(HttpError(response))

defaultResponseHandler(response) ==
    IF response.statusCode = StatusOK \/ response.statusCode = StatusNotFound
    THEN Returned("true")
    ELSE IF response.statusCode = StatusTooMany
    THEN Returned("false")
    ELSE Thrown(HttpError(response))

\* A caller's policy that answers some responses with a promise: 200 is
\* accepted at once, 404 gets a promise of true, 429 a promise of false, any
\* other status throws.
deferringResponseHandler(response) ==
    IF response.statusCode = StatusOK
    THEN Returned("true")
    ELSE IF response.statusCode = StatusNotFound
    THEN Returned("promise of true")
    ELSE IF response.statusCode = StatusTooMany
    THEN Returned("promise of false")
    ELSE Thrown(HttpError(response))

\* options.responseHandler
responseHandler(response) ==
    IF deferring THEN deferringResponseHandler(response)
    ELSE defaultResponseHandler(response)

\* What Promise.resolve(value).then receives: the value a promise settles
\* to, or the value itself.
Settled(value) ==
    IF value = "promise of true" THEN "true"
    ELSE IF value = "promise of false" THEN "false"
    ELSE value

\* JavaScript truthiness and _.isBoolean of a value the policy returned.
Truthy(value) == value \notin {"false", "undefined"}
isBoolean(value) == value \in {"true", "false"}

\* What the streamer made of a response: kept in policyLog.
Classified(status, res, branch) ==
    [status |-> status, thrown |-> res.thrown, value |-> res.value, branch |-> branch]

\* The catch block of onRequestResponse.
Http_onRequestResponseCatch(s, error) ==
    pushNull(Http_detachFromStreams(emitError(s, error)))

Http_onRequestResponse(s, response) ==
    LET res == responseHandler(response)
        st == response.statusCode
    IN IF res.thrown
       THEN LET s1 == [s EXCEPT !.policyLog = Append(@, Classified(st, res, "fail"))]
            IN Http_onRequestResponseCatch(s1, res.error)
       ELSE IF Truthy(res.value)
       THEN LET s1 == [s EXCEPT !.policyLog = Append(@, Classified(st, res, "accept"))]
                r == s1.request
                t == s1.transform
            IN IF r = null THEN crash(s1)
               ELSE LET s2 == [s1 EXCEPT !.reqs[r].on.data = @ + 1,
                                         !.reqs[r].on.close = @ + 1,
                                         !.reqs[r].on.end = @ + 1]
                    IN IF t # null
                       THEN [s2 EXCEPT !.trs[t].on.data = @ + 1,
                                       !.trs[t].on.error = @ + 1,
                                       !.trs[t].on.close = @ + 1,
                                       !.trs[t].on.end = @ + 1,
                                       !.reqs[r].pipes = @ \cup {t}]
                       ELSE s2
       ELSE LET s1 == [s EXCEPT !.policyLog = Append(@, Classified(st, res, "retry"))]
                s2 == Http_detachFromStreams(s1)
            IN [s2 EXCEPT !.retries = Append(@, [value |-> res.value,
                                                  deferred |-> response.request,
                                                  at |-> Queued(s2)])]

\* Promise.resolve(shouldProcessData).then(...).catch(...) of the retry branch.
Http_retryResolved(s, p, body) ==
    IF Truthy(Settled(p.value))
    THEN pushNull(Http_detachFromStreams(emitError(s, PromisedTrueErr)))
    ELSE LET t == Http_startRequest(s, body)
         IN [t EXCEPT !.reqs[t.request].retryOf = p.deferred]

\* ====================================================== PagedHttpGetReader
Paged_startRequest(s, body) ==
    LET r == Len(s.reqs) + 1
        q == [NewRequest(s.desc, body) EXCEPT !.on.error = @ + 1, !.on.close = @ + 1,
                                         !.on.response = @ + 1]
    IN [s EXCEPT !.reqs = Append(@, q), !.request = r]

Paged_detachFromStreams(s) ==
    LET s1 == IF s.request # null
              THEN [s EXCEPT !.reqs[s.request].on =
                              [data |-> removeListener(@.data),
                               error |-> removeListener(@.error),
                               close |-> removeListener(@.close),
                               end |-> removeListener(@.end),
                               response |-> removeListener(@.response)],
                             !.request = null]
              ELSE s
    IN IF s1.transform # null
       THEN [s1 EXCEPT !.trs[s1.transform].on =
                        [data |-> removeListener(@.data),
                         error |-> removeListener(@.error),
                         close |-> removeListener(@.close),
                         end |-> removeListener(@.end),
                         complete |-> removeListener(@.complete)],
                       !.transform = null]
       ELSE s1

\* The caller's nextPage(page, data): moves page.url to the next page while the
\* page is before lastPage and returns true; from lastPage on it returns false,
\* or throws (rejects) if nextPageThrows.
nextPage(page, data, h) ==
    IF page.url < lastPage
    THEN IF nextPageMutates
         THEN [page |-> [page EXCEPT !.url = @ + 1, !.headers = Len(h) + 1],
               result |-> "true",
               heap |-> Append([h EXCEPT ![page.query] = page.url + 1], page.url + 1)]
         ELSE [page |-> [page EXCEPT !.url = @ + 1], result |-> "true", heap |-> h]
    ELSE [page |-> page, result |-> IF nextPageThrows THEN "throw" ELSE "false",
          heap |-> h]

Paged_proceedToNextPage(s, data) ==
    LET s1 == Paged_detachFromStreams(s)
        page == s1.desc
        got == nextPage(page, data, s1.heap)
        s2 == [s1 EXCEPT !.contLog = Append(@, [url |-> page.url, data |-> data]),
                         !.heap = got.heap]
    IN [s2 EXCEPT !.conts = Append(@, [page |-> got.page, result |-> got.result,
                                       at |-> Queued(s2)])]

Mutant_Paged_nextPageResolved(s, got, body) ==
    IF got.result = "throw" THEN pushNull(s)
    ELSE Paged_startRequest([s EXCEPT !.desc = got.page], body)

\* .then((hasNextPage) => ...).catch(...) of proceedToNextPage.
Paged_nextPageResolved(s, got, body) ==
    IF got.result = "throw" THEN pushNull(s)
    ELSE IF ~Truthy(got.result) THEN pushNull(s)
    ELSE Paged_startRequest([s EXCEPT !.desc = got.page], body)

Mutant_Paged_onRequestErrorEnds(s, error) ==
    IF abortOnError THEN emitError(s, error)
    ELSE IF s.transform = null THEN pushNull(Paged_detachFromStreams(s))
    ELSE transformEnd(s, s.transform)

Mutant_Paged_onRequestError(s, error) ==
    IF s.transform = null THEN Paged_proceedToNextPage(s, null)
    ELSE transformEnd(s, s.transform)

Paged_onRequestError(s, error) ==
    IF abortOnError THEN emitError(s, error)
    ELSE IF s.transform = null THEN Paged_proceedToNextPage(s, null)
    ELSE transformEnd(s, s.transform)

Paged_onRequestClose(s) ==
    IF s.transform = null THEN Paged_proceedToNextPage(s, null)
    ELSE transformEnd(s, s.transform)

Paged_onRequestEnd(s) ==
    IF s.transform = null THEN Paged_proceedToNextPage(s, null)
    ELSE transformEnd(s, s.transform)

Paged_onRequestData(s, chunk) ==
    IF s.transform = null THEN push(s, chunk) ELSE s

Mutant_Paged_onRequestResponseCatch(s, error) ==
    IF abortOnError
    THEN pushNull(Paged_detachFromStreams(emitError(s, error)))
    ELSE Paged_proceedToNextPage(s, null)

\* The catch block of onRequestResponse.
Paged_onRequestResponseCatch(s, error) ==
    pushNull(Paged_detachFromStreams(emitError(s, error)))

Paged_onRequestResponse(s, response) ==
    LET res == responseHandler(response)
        st == response.statusCode
    IN IF res.thrown
       THEN LET s1 == [s EXCEPT !.policyLog = Append(@, Classified(st, res, "fail"))]
            IN Paged_onRequestResponseCatch(s1, res.error)
       ELSE IF isBoolean(res.value) /\ Truthy(res.value)
       THEN LET s1 == [s EXCEPT !.policyLog = Append(@, Classified(st, res, "accept"))]
                r == s1.request
            IN IF r = null THEN crash(s1)
               ELSE LET s2 == [s1 EXCEPT !.reqs[r].on.data = @ + 1,
                                         !.reqs[r].on.close = @ + 1,
                                         !.reqs[r].on.end = @ + 1]
                        t == Len(s2.trs) + 1
                        tr == [NewTransform EXCEPT !.on.data = @ + 1,
                                                   !.on.error = @ + 1,
                                                   !.on.close = @ + 1,
                                                   !.on.end = @ + 1,
                                                   !.on.complete = @ + 1]
                    IN IF useTransform
                       THEN [s2 EXCEPT !.trs = Append(@, tr), !.transform = t,
                                       !.reqs[r].pipes = @ \cup {t}]
                       ELSE s2
       ELSE LET s1 == [s EXCEPT !.policyLog = Append(@, Classified(st, res, "retry"))]
                s2 == Paged_detachFromStreams(s1)
            IN [s2 EXCEPT !.retries = Append(@, [value |-> res.value,
                                                  deferred |-> response.request,
                                                  at |-> Queued(s2)])]

Paged_retryResolved(s, p, body) ==
    IF Truthy(Settled(p.value))
    THEN pushNull(Paged_detachFromStreams(emitError(s, PromisedTrueErr)))
    ELSE LET t == Paged_startRequest(s, body)
         IN [t EXCEPT !.reqs[t.request].retryOf = p.deferred]

Paged_onTransformError(s, error) ==
    IF abortOnError THEN emitError(s, error)
    ELSE IF s.transform = null THEN crash(s)
    ELSE transformEnd(s, s.transform)

Paged_onTransformClose(s) ==
    IF s.transform = null THEN crash(s) ELSE transformEnd(s, s.transform)

Paged_onTransformEnd(s) == Paged_proceedToNextPage(s, null)

Paged_onTransformData(s, chunk) == push(s, chunk)

Paged_onTransformComplete(s, data) == Paged_proceedToNextPage(s, data)

\* ================================================== event delivery (emit)
\* The streamer's listener for an event of a request / of a transform.
\* _destroy(err, callback): detach from the current request and destroy it.
\* A request keeps the arguments of every destroy call made on it.
Http_destroy(s, err) ==
    IF s.request # null
    THEN LET capturedRequest == s.request
             s1 == Http_detachFromStreams(s)
         IN [s1 EXCEPT !.reqs[capturedRequest].destroyed = Append(@, err)]
    ELSE s

Paged_destroy(s, err) ==
    IF s.request # null
    THEN LET capturedRequest == s.request
             s1 == Paged_detachFromStreams(s)
         IN [s1 EXCEPT !.reqs[capturedRequest].destroyed = Append(@, err)]
    ELSE s

\* Readable.destroy(err): the first call marks the stream destroyed and runs
\* _destroy; later calls do nothing.
destroy(s, err) ==
    IF s.destroyed THEN s
    ELSE LET s1 == [s EXCEPT !.destroyed = TRUE]
         IN IF kind = "single" THEN Http_destroy(s1, err) ELSE Paged_destroy(s1, err)

requestListener(s, ev, arg) ==
    IF kind = "single"
    THEN CASE ev = "error" -> Http_onRequestError(s, arg)
           [] ev = "close" -> Http_onRequestClose(s)
           [] ev = "end" -> Http_onRequestEnd(s)
           [] ev = "data" -> Http_onRequestData(s, arg)
           [] ev = "response" -> Http_onRequestResponse(s, arg)
    ELSE CASE ev = "error" -> Paged_onRequestError(s, arg)
           [] ev = "close" -> Paged_onRequestClose(s)
           [] ev = "end" -> Paged_onRequestEnd(s)
           [] ev = "data" -> Paged_onRequestData(s, arg)
           [] ev = "response" -> Paged_onRequestResponse(s, arg)

transformListener(s, ev, arg) ==
    IF kind = "single"
    THEN CASE ev = "error" -> Http_onTransformError(s, arg)
           [] ev = "close" -> Http_onTransformClose(s)
           [] ev = "end" -> Http_onTransformEnd(s)
           [] ev = "data" -> Http_onTransformData(s, arg)
           [] ev = "complete" -> s
    ELSE CASE ev = "error" -> Paged_onTransformError(s, arg)
           [] ev = "close" -> Paged_onTransformClose(s)
           [] ev = "end" -> Paged_onTransformEnd(s)
           [] ev = "data" -> Paged_onTransformData(s, arg)
           [] ev = "complete" -> Paged_onTransformComplete(s, arg)

\* emit(): every instance registered when the emit starts is called, also one
\* that an earlier listener of the same emit has removed; a listener that
\* throws ends the emit.
RECURSIVE callRequestListeners(_, _, _, _)
callRequestListeners(s, ev, arg, n) ==
    IF n = 0 \/ s.crashed THEN s
    ELSE callRequestListeners(requestListener(s, ev, arg), ev, arg, n - 1)

RECURSIVE callTransformListeners(_, _, _, _)
callTransformListeners(s, ev, arg, n) ==
    IF n = 0 \/ s.crashed THEN s
    ELSE callTransformListeners(transformListener(s, ev, arg), ev, arg, n - 1)

emitRequest(s, r, ev, arg) == callRequestListeners(s, ev, arg, s.reqs[r].on[ev])
emitTransform(s, t, ev, arg) == callTransformListeners(s, ev, arg, s.trs[t].on[ev])

\* request.pipe(transform): every body chunk is written to the transform, and
\* the end of the body ends its input.
pipeData(s, r, chunk) ==
    [s EXCEPT !.trs = [t \in DOMAIN @ |->
        IF t \in s.reqs[r].pipes /\ ~@[t].endCalled /\ ~@[t].errored
        THEN [@[t] EXCEPT !.written = Append(@, chunk)]
        ELSE @[t]]]

pipeEnd(s, r) ==
    [s EXCEPT !.trs = [t \in DOMAIN @ |->
        IF t \in s.reqs[r].pipes THEN [@[t] EXCEPT !.endCalled = TRUE] ELSE @[t]]]

\* ----------------------------------------------------------- constructors
\* The caller's query and headers objects, as the caller made them.
CallerHeap == <<1, 1>>

Mutant_cloneDeep(h, ref) == [heap |-> h, ref |-> ref]

\* _.cloneDeep(object): a new object with the same contents.
cloneDeep(h, ref) == [heap |-> Append(h, h[ref]), ref |-> Len(h) + 1]

\* HttpGetReader keeps the caller's options and hands them to the transport.
Http_constructor ==
    [heap |-> CallerHeap,
     desc |-> [url |-> 1, query |-> CallerQuery, headers |-> CallerHeaders]]

\* PagedHttpGetReader keeps deep copies of options.query and options.headers.
Paged_constructor ==
    LET q == cloneDeep(CallerHeap, CallerQuery)
        hd == cloneDeep(q.heap, CallerHeaders)
    IN [heap |-> hd.heap, desc |-> [url |-> 1, query |-> q.ref, headers |-> hd.ref]]

constructor == IF kind = "single" THEN Http_constructor ELSE Paged_constructor

\* ================================================================== Init
\* The state after construction.  HttpGetReader is given a pre-built transform;
\* PagedHttpGetReader's constructor calls the factory once, to read objectMode,
\* and keeps this.transform null.
Init ==
    /\ kind \in {"single", "paged"}
    /\ abortOnError \in BOOLEAN
    /\ useTransform \in BOOLEAN
    /\ lastPage \in (IF kind = "single" THEN {1} ELSE 1..MaxPages)
    /\ nextPageThrows \in (IF kind = "single" THEN {FALSE} ELSE BOOLEAN)
    /\ deferring = FALSE
    /\ nextPageMutates = FALSE
    /\ request = null
    /\ transform = IF kind = "single" /\ useTransform THEN 1 ELSE null
    /\ desc = constructor.desc
    /\ heap = constructor.heap
    /\ readFired = FALSE
    /\ reqs = <<>>
    /\ trs = IF useTransform THEN <<NewTransform>> ELSE <<>>
    /\ out = <<>>
    /\ ended = FALSE
    /\ crashed = FALSE
    /\ destroyed = FALSE
    /\ buffered = 0
    /\ retries = <<>>
    /\ conts = <<>>
    /\ contLog = <<>>
    /\ policyLog = <<>>

\* A then-callback of a native promise that is already settled runs before any
\* other event: HttpGetReader's retry of a synchronously returned value.
MicrotaskPending == kind = "single" /\ retries # <<>>

Running == ~crashed /\ ~MicrotaskPending

\* =============================================================== actions
\* Only events that reach the streamer are steps: an event of a request or of a
\* transform on which the streamer has no listener for it (and, for body data
\* and end, no pipe) changes nothing in the streamer.
Listened(obj, ev) == obj.on[ev] > 0

\* _read(): emit('read'); the once('read') listener starts the first request.
\* The listener the constructor registers with once('read').
onceRead(s, body) ==
    IF kind = "single" THEN Http_startRequest(s, body)
    ELSE Paged_startRequest(s, body)

Mutant_emitRead(s, body) == onceRead([s EXCEPT !.readFired = TRUE], body)

\* this.emit('read') of _read: the once-listener is removed by its first
\* call, so later emits find no listener.
emitRead(s, body) ==
    IF s.readFired THEN s
    ELSE onceRead([s EXCEPT !.readFired = TRUE], body)

ReadUpTo(max) ==
    /\ Running
    /\ \E body \in 0..MaxChunks :
         LET t == emitRead(State, body)
         IN Len(t.reqs) <= max /\ Commit(t)

Read == ReadUpTo(MaxRequests)

\* The transport reports the response of request r.
TransportResponse(r, status) ==
    /\ Running
    /\ Listened(reqs[r], "response")
    /\ reqs[r].resp = null /\ ~reqs[r].errored /\ ~reqs[r].closed
    /\ LET s == [State EXCEPT !.reqs[r].resp = status]
       IN Commit(emitRequest(s, r, "response", Response(r, status)))

\* The transport delivers the next body chunk of request r.
TransportData(r) ==
    /\ Running
    /\ reqs[r].resp # null /\ ~reqs[r].errored /\ ~reqs[r].closed /\ ~reqs[r].ended
    /\ reqs[r].ndata < reqs[r].body
    /\ Listened(reqs[r], "data") \/ reqs[r].pipes # {}
    /\ LET c == Chunk(r, reqs[r].ndata + 1)
           s == [State EXCEPT !.reqs[r].ndata = @ + 1]
       IN Commit(pipeData(emitRequest(s, r, "data", c), r, c))

\* The transport reports the end of the body of request r, all of it delivered.
TransportEnd(r) ==
    /\ Running
    /\ reqs[r].resp # null /\ ~reqs[r].errored /\ ~reqs[r].ended
    /\ reqs[r].ndata = reqs[r].body
    /\ Listened(reqs[r], "end") \/ reqs[r].pipes # {}
    /\ LET s == [State EXCEPT !.reqs[r].ended = TRUE]
       IN Commit(pipeEnd(emitRequest(s, r, "end", null), r))

\* The transport reports that the connection of request r is closed: after
\* the whole body (before or after 'end'), or after an error.
TransportClose(r) ==
    /\ Running
    /\ ~reqs[r].closed
    /\ (reqs[r].resp # null /\ reqs[r].ndata = reqs[r].body) \/ reqs[r].errored
    /\ Listened(reqs[r], "close")
    /\ LET s == [State EXCEPT !.reqs[r].closed = TRUE]
       IN Commit(emitRequest(s, r, "close", null))

\* The transport reports an error of request r.
TransportError(r) ==
    /\ Running
    /\ ~reqs[r].errored /\ ~reqs[r].closed /\ ~reqs[r].ended
    /\ Listened(reqs[r], "error")
    /\ LET s == [State EXCEPT !.reqs[r].errored = TRUE]
       IN Commit(emitRequest(s, r, "error", TransportErr))

\* The transform emits its output for the next chunk written to it.
TransformData(t) ==
    /\ Running
    /\ ~trs[t].errored /\ ~trs[t].endEmitted /\ ~trs[t].closeEmitted
    /\ trs[t].emitted < Len(trs[t].written)
    /\ Listened(trs[t], "data")
    /\ LET c == Transformed(trs[t].written[trs[t].emitted + 1])
           s == [State EXCEPT !.trs[t].emitted = @ + 1]
       IN Commit(emitTransform(s, t, "data", c))

\* The transform, its input ended and its output delivered, emits 'end'; an
\* errored transform may emit 'end' as well.
TransformEnd(t) ==
    /\ Running
    /\ trs[t].endCalled /\ ~trs[t].endEmitted /\ ~trs[t].closeEmitted
    /\ trs[t].emitted = Len(trs[t].written) \/ trs[t].errored
    /\ Listened(trs[t], "end")
    /\ LET s == [State EXCEPT !.trs[t].endEmitted = TRUE]
       IN Commit(emitTransform(s, t, "end", null))

\* The transform emits 'complete' with the page's aggregated result, before or
\* after its 'end'.
TransformComplete(t) ==
    /\ Running
    /\ kind = "paged"
    /\ trs[t].endCalled /\ ~trs[t].completeEmitted /\ ~trs[t].closeEmitted
    /\ ~trs[t].errored
    /\ trs[t].emitted = Len(trs[t].written)
    /\ Listened(trs[t], "complete")
    /\ LET s == [State EXCEPT !.trs[t].completeEmitted = TRUE]
       IN Commit(emitTransform(s, t, "complete", CompleteResult))

\* The transform emits 'close', after its 'end' or after an error.
TransformClose(t) ==
    /\ Running
    /\ ~trs[t].closeEmitted
    /\ trs[t].endEmitted \/ trs[t].errored
    /\ Listened(trs[t], "close")
    /\ LET s == [State EXCEPT !.trs[t].closeEmitted = TRUE]
       IN Commit(emitTransform(s, t, "close", null))

\* The transform fails on a chunk, or on flushing at the end of its input.
TransformError(t) ==
    /\ Running
    /\ ~trs[t].errored /\ ~trs[t].endEmitted /\ ~trs[t].closeEmitted
    /\ trs[t].emitted < Len(trs[t].written) \/ trs[t].endCalled
    /\ Listened(trs[t], "error")
    /\ LET s == [State EXCEPT !.trs[t].errored = TRUE]
       IN Commit(emitTransform(s, t, "error", TransformErr))

\* The promise of a retry branch settles and its then-callback runs.  The
\* policy's value and nextPage's result are there when the promises are made,
\* so the callbacks of both run in the order the promises were made.
RetryResolveUpTo(max) ==
    /\ ~crashed
    /\ retries # <<>>
    /\ conts # <<>> => Head(retries).at < Head(conts).at
    /\ \E body \in 0..MaxChunks :
         LET p == Head(retries)
             s == [State EXCEPT !.retries = Tail(@)]
             t == IF kind = "single" THEN Http_retryResolved(s, p, body)
                  ELSE Paged_retryResolved(s, p, body)
         IN Len(t.reqs) <= max /\ Commit(t)

RetryResolve == RetryResolveUpTo(MaxRequests)

\* The promise of proceedToNextPage settles and its then-callback runs.
\* nextPage returns synchronously, so the callbacks run in the order of the
\* calls; events of the transport and of the transform may come before them.
NextPageResolveUpTo(max) ==
    /\ Running
    /\ conts # <<>>
    /\ retries # <<>> => Head(conts).at < Head(retries).at
    /\ \E body \in 0..MaxChunks :
         LET got == Head(conts)
             s == [State EXCEPT !.conts = Tail(@)]
             t == Paged_nextPageResolved(s, got, body)
         IN Len(t.reqs) <= max /\ Commit(t)

NextPageResolve == NextPageResolveUpTo(MaxRequests)

Next ==
    \/ Read
    \/ \E r \in DOMAIN reqs, status \in Statuses : TransportResponse(r, status)
    \/ \E r \in DOMAIN reqs : TransportData(r)
    \/ \E r \in DOMAIN reqs : TransportEnd(r)
    \/ \E r \in DOMAIN reqs : TransportClose(r)
    \/ \E r \in DOMAIN reqs : TransportError(r)
    \/ \E t \in DOMAIN trs : TransformData(t)
    \/ \E t \in DOMAIN trs : TransformEnd(t)
    \/ \E t \in DOMAIN trs : TransformComplete(t)
    \/ \E t \in DOMAIN trs : TransformClose(t)
    \/ \E t \in DOMAIN trs : TransformError(t)
    \/ RetryResolve
    \/ NextPageResolve

Spec == Init /\ [][Next]_vars

\* PagedHttpGetReader where nothing fails: every response is 200 or 429, no
\* transport or transform error, no 'complete' and no transform 'close'; one
\* more request than under Spec.
InitFaultFree ==
    Init /\ kind = "paged" /\ lastPage = MaxPages /\ ~nextPageThrows

NextFaultFree ==
    \/ ReadUpTo(MaxFaultFreeRequests)
    \/ \E r \in DOMAIN reqs : TransportResponse(r, StatusOK)
    \/ \E r \in DOMAIN reqs : TransportResponse(r, StatusTooMany)
    \/ \E r \in DOMAIN reqs : TransportData(r)
    \/ \E r \in DOMAIN reqs : TransportEnd(r)
    \/ \E r \in DOMAIN reqs : TransportClose(r)
    \/ \E t \in DOMAIN trs : TransformData(t)
    \/ \E t \in DOMAIN trs : TransformEnd(t)
    \/ RetryResolveUpTo(MaxFaultFreeRequests)
    \/ NextPageResolveUpTo(MaxFaultFreeRequests)

SpecFaultFree == InitFaultFree /\ [][NextFaultFree]_vars

\* ================================================================ claims
IsPrefix(a, b) == Len(a) <= Len(b) /\ \A i \in 1..Len(a) : a[i] = b[i]

\* What the consumer is to see of chunk c, and of the first n chunks of request r.
Seen(c) == IF useTransform THEN Transformed(c) ELSE c
BodyEvents(r, n) == [i \in 1..n |-> ChunkEv(Seen(Chunk(r, i)))]

Accepted(r) == reqs[r].resp \in {StatusOK, StatusNotFound}
NoTransportError == \A r \in DOMAIN reqs : ~reqs[r].errored
NoTransformError == \A t \in DOMAIN trs : ~trs[t].errored

\* C1: HttpGetReader, one request whose response is accepted, no transport or
\* transform error: the consumer sees the body's chunks in order (the
\* transform's output when a transform is given), then one end signal, and no
\* error; the end signal is there as soon as the transport has emitted 'end' or
\* 'close' (no transform) or the transform has emitted 'end', in any order of
\* the transport's 'end' and 'close'.
C1_Case ==
    /\ kind = "single" /\ Len(reqs) = 1 /\ Accepted(1)
    /\ NoTransportError /\ NoTransformError

C1_WitnessRaw ==
    /\ C1_Case /\ ~useTransform /\ reqs[1].body = MaxChunks
    /\ reqs[1].ended /\ reqs[1].closed
    /\ out = BodyEvents(1, MaxChunks) \o <<EndEv>>

RECURSIVE PagesUpTo(_)
PagesUpTo(n) ==
    IF n = 0 THEN <<>> ELSE PagesUpTo(n - 1) \o BodyEvents(n, reqs[n].body)

\* C2: PagedHttpGetReader, every response accepted, no transport or transform
\* error, the continuation true for pages 1..K-1 and false for page K: the
\* pages are requested once each in page order, the consumer sees the pages'
\* bodies concatenated in page order, and the end signal comes after the body
\* of page K and only then.
C2_Case ==
    /\ kind = "paged"
    /\ \A r \in DOMAIN reqs : reqs[r].resp \in {null, StatusOK, StatusNotFound}
    /\ NoTransportError /\ NoTransformError

C2_PagesConcatenated ==
    C2_Case =>
        /\ ~crashed
        /\ \A r \in DOMAIN reqs : reqs[r].desc.url = r
        /\ IsPrefix(out, PagesUpTo(Len(reqs)) \o <<EndEv>>)
        /\ ended => /\ Len(reqs) = lastPage
                    /\ out = PagesUpTo(lastPage) \o <<EndEv>>

\* C3: PagedHttpGetReader issues a request for a next page only in the step
\* that consumes a resolved continuation whose result is truthy, and the
\* request is for the page that continuation left in its descriptor.
C3_IssuesNextPage ==
    /\ kind = "paged"
    /\ Len(reqs') = Len(reqs) + 1
    /\ reqs # <<>>
    /\ retries' = retries

C3_NextPageAfterContinuation ==
    [][C3_IssuesNextPage =>
        /\ conts # <<>>
        /\ Truthy(Head(conts).result)
        /\ conts' = Tail(conts)
        /\ reqs'[Len(reqs')].desc = Head(conts).page
        /\ reqs'[Len(reqs')].retryOf = null]_vars

C3_Witness ==
    /\ kind = "paged" /\ Len(reqs) = 2 /\ retries = <<>>
    /\ Len(contLog) = 1 /\ conts = <<>>
    /\ reqs[1].desc.url = 1 /\ reqs[2].desc.url = 2

\* C4: at any time at most one transport request is live (issued, neither
\* ended, closed nor failed, the streamer's handlers attached to it) and at
\* most one transform has the streamer's handlers attached.
Attached(obj) == \E ev \in DOMAIN obj.on : obj.on[ev] > 0
Live(r) ==
    /\ Attached(reqs[r])
    /\ ~reqs[r].ended /\ ~reqs[r].closed /\ ~reqs[r].errored

C4_OneLiveRequest ==
    /\ Cardinality({r \in DOMAIN reqs : Live(r)}) <= 1
    /\ Cardinality({t \in DOMAIN trs : Attached(trs[t])}) <= 1

\* C5: HttpGetReader, every response before the last is a Retry (429) and the
\* last is accepted, no transport or transform error: every re-issued request
\* carries the url, query and headers of the request it repeats, and the
\* consumer sees what it would have seen had the last request been the only
\* one (its body, through the transform when one is given, then one end).
C5_Case ==
    /\ kind = "single" /\ reqs # <<>>
    /\ \A r \in 1..(Len(reqs) - 1) : reqs[r].resp = StatusTooMany
    /\ Accepted(Len(reqs))
    /\ NoTransportError /\ NoTransformError

C5_RetryTransparent ==
    C5_Case =>
        LET last == Len(reqs)
            full == BodyEvents(last, reqs[last].body) \o <<EndEv>>
        IN /\ \A r \in 2..last : reqs[r].desc = reqs[r - 1].desc
           /\ IsPrefix(out, full)
           /\ ended => out = full

\* C6: from the response classified Retry until the response of the re-issued
\* request nothing is delivered to the consumer (no chunk, no end, no error)
\* unless the transport fails,
\* and from the Retry on the deferred request has none of the streamer's
\* handlers left.
AwaitingRetry ==
    \/ retries # <<>>
    \/ \E r \in DOMAIN reqs : reqs[r].retryOf # null /\ reqs[r].resp = null

C6_DeferredDetached ==
    /\ \A i \in DOMAIN retries : ~Attached(reqs[retries[i].deferred])
    /\ \A r \in DOMAIN reqs :
          reqs[r].retryOf # null => ~Attached(reqs[reqs[r].retryOf])

C6_RetrySilent ==
    [](C6_DeferredDetached) /\
    [][(AwaitingRetry /\ policyLog' = policyLog /\ NoTransportError')
           => out' = out]_vars

\* C7: the default policy returns true for 200 and 404 (the streamer accepts),
\* false for 429 (the streamer retries) and throws for every other status (the
\* streamer fails the response).
C7_DefaultPolicy ==
    \A i \in DOMAIN policyLog :
        LET e == policyLog[i]
        IN /\ e.status \in {StatusOK, StatusNotFound} =>
                ~e.thrown /\ e.value = "true" /\ e.branch = "accept"
           /\ e.status = StatusTooMany =>
                ~e.thrown /\ e.value = "false" /\ e.branch = "retry"
           /\ e.status \notin {StatusOK, StatusNotFound, StatusTooMany} =>
                e.thrown /\ e.branch = "fail"

C7_Witness ==
    /\ Len(policyLog) = 2
    /\ policyLog[1].status = StatusTooMany /\ policyLog[1].branch = "retry"
    /\ policyLog[2].status = StatusNotFound /\ policyLog[2].branch = "accept"

\* C8: default policy, abortOnError = false, a single page whose response is
\* 404 with an empty body: the consumer sees no chunk and no error, at most
\* one end signal, and the end signal is there once the transport has emitted
\* 'end' or 'close' (HttpGetReader without transform), once the transform has
\* emitted 'end' (HttpGetReader with transform), once the continuation has
\* resolved false (PagedHttpGetReader).
C8_Case ==
    /\ ~abortOnError /\ lastPage = 1
    /\ Len(reqs) = 1 /\ reqs[1].resp = StatusNotFound /\ reqs[1].body = 0

C8_Finished ==
    \/ kind = "single" /\ ~useTransform /\ (reqs[1].ended \/ reqs[1].closed)
    \/ kind = "single" /\ useTransform /\ trs[1].endEmitted
    \/ kind = "paged" /\ contLog # <<>> /\ conts = <<>>

C8_NotFoundIsEmpty ==
    C8_Case =>
        /\ ~crashed
        /\ out \in {<<>>, <<EndEv>>}
        /\ C8_Finished => out = <<EndEv>>

C8_Witness ==
    /\ C8_Case /\ kind = "paged" /\ reqs[1].ended /\ reqs[1].closed
    /\ contLog # <<>> /\ conts = <<>> /\ out = <<EndEv>>

\* C9: default policy, a response whose status is none of 200, 404, 429: the
\* consumer receives an error naming the HTTP method (GET) and the status
\* code, whatever abortOnError is.
Failed == {i \in DOMAIN policyLog : policyLog[i].branch = "fail"}
Delivered(e) == \E j \in DOMAIN out : out[j] = e

C9_ErrorNamesMethodAndStatus ==
    \A i \in Failed :
        Delivered(ErrorEv([v |-> policyLog[i].status, m |-> "GET"]))

C10_RejectsResponse ==
    /\ Len(policyLog') = Len(policyLog) + 1
    /\ policyLog'[Len(policyLog')].branch = "fail"

FatalError(e) == e.t = "error" /\ e.m # PushAfterEofErr.m

C11_NothingAfterFatalError ==
    \A j \in DOMAIN out : FatalError(out[j]) => j = Len(out)

\* C12: with abortOnError = true, the step in which the transport reports an
\* error of a request (before or after its response, with or without a
\* transform, on any page) emits the transport's error to the consumer.
TransportErrorOf(r) == ~reqs[r].errored /\ reqs'[r].errored

C12_TransportErrorEmitted ==
    [][(abortOnError /\ \E r \in DOMAIN reqs : TransportErrorOf(r))
           => out' = Append(out, ErrorEv(TransportErr))]_vars

C12_Witness ==
    /\ abortOnError /\ kind = "paged" /\ useTransform
    /\ Len(reqs) = 2 /\ reqs[2].desc.url = 2
    /\ reqs[2].resp = StatusOK /\ reqs[2].errored
    /\ Delivered(ErrorEv(TransportErr))

\* C13: HttpGetReader, abortOnError = false, no transform: the step in which
\* the transport reports an error emits no error, detaches from the request
\* and pushes the end signal; from then on the consumer has the chunks
\* delivered before the error followed by exactly one end signal.
C13_Case == kind = "single" /\ ~abortOnError /\ ~useTransform

C13_EndedAfterChunks ==
    /\ ended /\ out # <<>> /\ out[Len(out)] = EndEv
    /\ \A j \in 1..(Len(out) - 1) : out[j].t = "chunk"

InitHttp == Init /\ kind = "single"

NextHttp ==
    \/ Read
    \/ \E r \in DOMAIN reqs, status \in Statuses : TransportResponse(r, status)
    \/ \E r \in DOMAIN reqs : TransportData(r)
    \/ \E r \in DOMAIN reqs : TransportEnd(r)
    \/ \E r \in DOMAIN reqs : TransportClose(r)
    \/ \E r \in DOMAIN reqs : TransportError(r)
    \/ \E t \in DOMAIN trs : TransformData(t)
    \/ \E t \in DOMAIN trs : TransformEnd(t)
    \/ \E t \in DOMAIN trs : TransformClose(t)
    \/ \E t \in DOMAIN trs : TransformError(t)
    \/ RetryResolve

FairHttp ==
    /\ WF_vars(Read)
    /\ WF_vars(\E r \in DOMAIN reqs, status \in Statuses : TransportResponse(r, status))
    /\ WF_vars(\E r \in DOMAIN reqs : TransportData(r))
    /\ WF_vars(\E r \in DOMAIN reqs : TransportEnd(r))
    /\ WF_vars(\E r \in DOMAIN reqs : TransportClose(r))
    /\ WF_vars(\E t \in DOMAIN trs : TransformData(t))
    /\ WF_vars(\E t \in DOMAIN trs : TransformEnd(t))
    /\ WF_vars(\E t \in DOMAIN trs : TransformClose(t))
    /\ WF_vars(RetryResolve)

SpecHttpFair == InitHttp /\ [][NextHttp]_vars /\ FairHttp

\* C14: HttpGetReader, abortOnError = false, a transform configured: after a
\* transport error at any point (also before any response) the stream
\* eventually emits its end signal.
C14_TransportErrorLeadsToEnd ==
    (kind = "single" /\ ~abortOnError /\ useTransform
       /\ \E r \in DOMAIN reqs : reqs[r].errored) ~> ended

\* C15: PagedHttpGetReader, abortOnError = false: the step in which the
\* transport reports an error of the current request (page N) emits nothing to
\* the consumer; with no transform attached it invokes the continuation for
\* page N with data = null, whose result decides on page N+1; with a transform
\* attached it gives the transform end-of-input, whose 'end' invokes it.
C15_ErrorOfCurrent(r) ==
    kind = "paged" /\ ~abortOnError /\ request = r /\ TransportErrorOf(r)

TransformErrorOf(t) == ~trs[t].errored /\ trs'[t].errored

C16_TransformErrorEmitted ==
    [][(abortOnError /\ \E t \in DOMAIN trs : TransformErrorOf(t))
           => out' = Append(out, ErrorEv(TransformErr))]_vars

C16_Witness ==
    /\ abortOnError /\ kind = "single" /\ useTransform
    /\ Len(reqs) = 1 /\ reqs[1].resp = StatusOK /\ reqs[1].ndata = 1
    /\ trs[1].errored /\ trs[1].emitted = 0
    /\ Delivered(ErrorEv(TransformErr))

\* PagedHttpGetReader with abortOnError = false and a transformFactory, a
\* consumer that keeps reading, and a transport, transforms and promises that
\* deliver every event other than an error once it is due.
InitPagedFair ==
    Init /\ kind = "paged" /\ ~abortOnError /\ useTransform /\ ~nextPageThrows

FairPaged ==
    /\ WF_vars(Read)
    /\ WF_vars(\E r \in DOMAIN reqs, status \in Statuses : TransportResponse(r, status))
    /\ WF_vars(\E r \in DOMAIN reqs : TransportData(r))
    /\ WF_vars(\E r \in DOMAIN reqs : TransportEnd(r))
    /\ WF_vars(\E r \in DOMAIN reqs : TransportClose(r))
    /\ WF_vars(\E t \in DOMAIN trs : TransformData(t))
    /\ WF_vars(\E t \in DOMAIN trs : TransformEnd(t))
    /\ WF_vars(\E t \in DOMAIN trs : TransformComplete(t))
    /\ WF_vars(\E t \in DOMAIN trs : TransformClose(t))
    /\ WF_vars(RetryResolve)
    /\ WF_vars(NextPageResolve)

SpecPagedFair == InitPagedFair /\ [][Next]_vars /\ FairPaged

\* C17: PagedHttpGetReader, abortOnError = false, a transformFactory: after the
\* transform of the page in progress has emitted an error, no error is emitted
\* to the consumer and the continuation is eventually invoked for that page,
\* whatever the errored transform emits afterwards.
C17_TransformErrorProceeds ==
    /\ [](\A j \in DOMAIN out : out[j].m # TransformErr.m)
    /\ \A t \in 2..(MaxRequests + 1) : \A n \in 0..(2 * MaxRequests) :
          (Len(trs) >= t /\ trs[t].errored /\ transform = t /\ Len(contLog) = n)
              ~> (Len(contLog) > n)

\* ---- a continuation that throws at the last page, transport answering
\*      200 or 429 only, up to MaxThrowRequests requests ----
InitThrows ==
    Init /\ kind = "paged" /\ lastPage = MaxPages /\ nextPageThrows

NextThrows ==
    \/ ReadUpTo(MaxThrowRequests)
    \/ \E r \in DOMAIN reqs : TransportResponse(r, StatusOK)
    \/ \E r \in DOMAIN reqs : TransportResponse(r, StatusTooMany)
    \/ \E r \in DOMAIN reqs : TransportData(r)
    \/ \E r \in DOMAIN reqs : TransportEnd(r)
    \/ \E r \in DOMAIN reqs : TransportClose(r)
    \/ \E t \in DOMAIN trs : TransformData(t)
    \/ \E t \in DOMAIN trs : TransformEnd(t)
    \/ RetryResolveUpTo(MaxThrowRequests)
    \/ NextPageResolveUpTo(MaxThrowRequests)

SpecThrows == InitThrows /\ [][NextThrows]_vars

\* The continuations whose result has been consumed: the promise queue is
\* first-in first-out, so they are the first entries of contLog.
Resolved == 1..(Len(contLog) - Len(conts))

\* A continuation that threw (or rejected) has been consumed.
Threw ==
    nextPageThrows /\ \E i \in Resolved : contLog[i].url >= lastPage

\* The step in which the result of a throwing continuation is consumed.
ThrowResolves ==
    /\ conts # <<>>
    /\ conts' = Tail(conts)
    /\ Head(conts).result = "throw"

\* C18 (first half): the step that consumes a thrown or rejected
\* continuation ends the stream with the end signal (once), emits no error
\* and issues no request, with abortOnError true or false.
C18_ThrowEndsStream ==
    [][ThrowResolves =>
         /\ ended'
         /\ out' = (IF ended THEN out ELSE Append(out, EndEv))
         /\ reqs' = reqs
         /\ request' = request]_vars

\* C18: PagedHttpGetReader: when the continuation throws or rejects, the
\* stream ends with the end signal, no error is emitted for it, and no
\* further request is issued afterwards.
C18_ThrowIsTerminal ==
    /\ C18_ThrowEndsStream
    /\ [][Threw => Len(reqs') = Len(reqs)]_vars

C18_Witness ==
    /\ Threw
    /\ ended
    /\ out # <<>>
    /\ out[Len(out)] = EndEv
    /\ \A j \in DOMAIN out : out[j].t # "error"

\* A continuation that returned false has been consumed.
ReturnedFalse ==
    ~nextPageThrows /\ \E i \in Resolved : contLog[i].url >= lastPage

\* The step in which a false result of the continuation is consumed.
FalseResolves ==
    /\ conts # <<>>
    /\ conts' = Tail(conts)
    /\ Head(conts).result = "false"

\* C19 (first half): the step that consumes a false result of the
\* continuation pushes the end signal and issues no request.
C19_FalseEndsStream ==
    [][FalseResolves =>
         /\ ended'
         /\ out' = (IF ended THEN out ELSE Append(out, EndEv))
         /\ reqs' = reqs]_vars

\* C19: PagedHttpGetReader: a false result of the continuation is the end
\* of the sequence and is terminal: afterwards no transport request is
\* issued and the continuation is not invoked again.
C19_FalseIsTerminal ==
    /\ C19_FalseEndsStream
    /\ [][ReturnedFalse => (Len(reqs') = Len(reqs) /\ contLog' = contLog)]_vars

\* ---- a sequence of MaxDeepPages pages without a transform and with
\*      abortOnError = false, the transport answering 200 or 429 and
\*      delivering no body chunk, up to MaxDeepRequests requests ----
InitDeep ==
    /\ kind = "paged"
    /\ abortOnError = FALSE
    /\ useTransform = FALSE
    /\ lastPage = MaxDeepPages
    /\ nextPageThrows = FALSE
    /\ deferring = FALSE
    /\ nextPageMutates = FALSE
    /\ request = null
    /\ transform = null
    /\ desc = constructor.desc
    /\ heap = constructor.heap
    /\ readFired = FALSE
    /\ reqs = <<>>
    /\ trs = <<>>
    /\ out = <<>>
    /\ ended = FALSE
    /\ crashed = FALSE
    /\ destroyed = FALSE
    /\ buffered = 0
    /\ retries = <<>>
    /\ conts = <<>>
    /\ contLog = <<>>
    /\ policyLog = <<>>

NextDeep ==
    \/ ReadUpTo(MaxDeepRequests)
    \/ \E r \in DOMAIN reqs : TransportResponse(r, StatusOK)
    \/ \E r \in DOMAIN reqs : TransportResponse(r, StatusTooMany)
    \/ \E r \in DOMAIN reqs : TransportEnd(r)
    \/ \E r \in DOMAIN reqs : TransportClose(r)
    \/ RetryResolveUpTo(MaxDeepRequests)
    \/ NextPageResolveUpTo(MaxDeepRequests)

SpecDeep == InitDeep /\ [][NextDeep]_vars

\* The step in which a true result of the continuation is consumed.
TrueResolves ==
    /\ conts # <<>>
    /\ conts' = Tail(conts)
    /\ Head(conts).result = "true"

\* C20 (first half): when a true result of the continuation is consumed, one
\* request is issued with exactly the url, query and headers of the page
\* descriptor, and they become the streamer's current request state.
C20_AdoptsPage ==
    [][TrueResolves =>
         /\ desc' = Head(conts).page
         /\ Len(reqs') = Len(reqs) + 1
         /\ reqs'[Len(reqs')].desc = Head(conts).page
         /\ request' = Len(reqs')]_vars

\* C20 (second half): a retry is issued from the current request state, and
\* that is the url, query and headers of the request it retries.
C20_RetryUsesPage ==
    [][\A r \in DOMAIN reqs' :
         (r \notin DOMAIN reqs /\ reqs'[r].retryOf # null) =>
            /\ reqs'[r].desc = desc
            /\ desc' = desc
            /\ reqs'[r].desc = reqs[reqs'[r].retryOf].desc]_vars

\* C20: PagedHttpGetReader: after a true result the next request is issued
\* with exactly the url, query and headers held by the page descriptor when
\* the result resolves; they become the current request state, which a retry
\* of that page uses too.
C20_NextRequestFromPage ==
    C20_AdoptsPage /\ C20_RetryUsesPage

C20_Witness ==
    /\ Len(reqs) = 3
    /\ reqs[2].desc.url = 2
    /\ reqs[2].resp = StatusTooMany
    /\ reqs[3].retryOf = 2
    /\ reqs[3].desc = reqs[2].desc

\* ---- both streamers with a response policy that answers with promises ----
InitDeferring ==
    /\ kind \in {"single", "paged"}
    /\ abortOnError \in BOOLEAN
    /\ useTransform \in BOOLEAN
    /\ lastPage \in (IF kind = "single" THEN {1} ELSE 1..MaxPages)
    /\ nextPageThrows = FALSE
    /\ deferring = TRUE
    /\ nextPageMutates = FALSE
    /\ request = null
    /\ transform = IF kind = "single" /\ useTransform THEN 1 ELSE null
    /\ desc = constructor.desc
    /\ heap = constructor.heap
    /\ readFired = FALSE
    /\ reqs = <<>>
    /\ trs = IF useTransform THEN <<NewTransform>> ELSE <<>>
    /\ out = <<>>
    /\ ended = FALSE
    /\ crashed = FALSE
    /\ destroyed = FALSE
    /\ buffered = 0
    /\ retries = <<>>
    /\ conts = <<>>
    /\ contLog = <<>>
    /\ policyLog = <<>>

SpecDeferring == InitDeferring /\ [][Next]_vars

Deferred(value) == value \in {"promise of true", "promise of false"}

\* The step in which the value of the retry branch settles.
RetrySettles == retries # <<>> /\ retries' = Tail(retries)

\* C21 (first half): a response the policy answered with a promise is never
\* accepted: its body is not consumed before the promise settles.
C21_DeferredNotAccepted ==
    \A i \in DOMAIN policyLog :
        Deferred(policyLog[i].value) => policyLog[i].branch = "retry"

\* C21 (second half): a promise that settles to a truthy value fails the
\* stream with the explicit error and issues no request, with abortOnError
\* true or false; one that settles to a falsy value re-issues the request.
C21_SettledOutcome ==
    [][RetrySettles =>
         LET p == Head(retries)
         IN /\ p.value = "promise of true" =>
                 /\ reqs' = reqs
                 /\ Len(out') > Len(out)
                 /\ out'[Len(out) + 1] = ErrorEv(PromisedTrueErr)
            /\ p.value = "promise of false" =>
                 /\ Len(reqs') = Len(reqs) + 1
                 /\ reqs'[Len(reqs')].desc = reqs[p.deferred].desc
                 /\ out' = out]_vars

\* C21: in both streamers a policy result that is a promise settling to a
\* truthy value fails the stream with an explicit error, without a retry
\* request and without consuming the body, whatever abortOnError is; if it
\* settles to a falsy value the same request is retried.
C21_DeferredResult ==
    []C21_DeferredNotAccepted /\ C21_SettledOutcome

\* C21 restricted to PagedHttpGetReader.
C21_PagedDeferredResult ==
    [](kind = "paged" => C21_DeferredNotAccepted) /\ C21_SettledOutcome

\* C22 (first half): no transport request exists before the consumer's
\* first pull.
C22_NoRequestBeforePull == ~readFired => reqs = <<>>

\* C22 (second half): requests are issued one at a time, and only by the
\* first pull, by a settled retry or by a resolved continuation: a pull
\* after the first one issues nothing.
C22_OnlyFirstPullIssues ==
    [][Len(reqs') > Len(reqs) =>
         /\ Len(reqs') = Len(reqs) + 1
         /\ \/ ~readFired /\ readFired' /\ reqs = <<>>
            \/ RetrySettles
            \/ conts # <<>> /\ conts' = Tail(conts)]_vars

\* C22: neither streamer issues a transport request before the consumer's
\* first pull; the first pull issues exactly one request, and further pulls
\* (request in flight, retry or continuation pending) issue none.
C22_LazyStart ==
    []C22_NoRequestBeforePull /\ C22_OnlyFirstPullIssues

C22_Witness ==
    /\ readFired
    /\ Len(reqs) = 1
    /\ request = 1
    /\ reqs[1].resp = null

\* ---- the consumer may destroy the stream at any moment ----
Reasons == {CancelErr, TimeoutErr}

\* stream.destroy(err), called by the consumer or by a pipeline.
Destroy ==
    /\ Running
    /\ ~destroyed
    /\ \E err \in Reasons : Commit(destroy(State, err))

NextDestroy == Next \/ Destroy

SpecDestroy == Init /\ [][NextDestroy]_vars

\* The step in which the stream is destroyed.
DestroyStep == ~destroyed /\ destroyed'

\* C23: destroying the stream while a transport request is in flight removes
\* every streamer handler from that request and from the attached transform,
\* and calls destroy on that request exactly once, with the reason.
C23_DestroyDetaches ==
    [][(DestroyStep /\ request # null) =>
         /\ reqs'[request].on = NoListeners
         /\ transform # null => trs'[transform].on = NoTransformListeners
         /\ reqs[request].destroyed = <<>>
         /\ \E err \in Reasons : reqs'[request].destroyed = <<err>>]_vars

\* C23 without the handlers of the request: the transform is left without
\* handlers and the request is destroyed exactly once, with the reason.
C23_DestroysOnce ==
    /\ [][(DestroyStep /\ request # null) =>
            /\ transform # null => trs'[transform].on = NoTransformListeners
            /\ reqs[request].destroyed = <<>>
            /\ \E err \in Reasons : reqs'[request].destroyed = <<err>>]_vars
    /\ [](\A r \in DOMAIN reqs : Len(reqs[r].destroyed) <= 1)

\* The stream was destroyed while a request was in flight.
DestroyedMidPage == destroyed /\ \E r \in DOMAIN reqs : reqs[r].destroyed # <<>>

\* C24: after the stream was destroyed mid-page, no transport or transform
\* event makes the streamer push a chunk or the end signal, emit an error
\* or invoke the continuation.
C24_SilentAfterDestroy ==
    [][(DestroyedMidPage /\ ~RetrySettles /\ ~(conts # <<>> /\ conts' = Tail(conts))) =>
         (out' = out /\ ended' = ended /\ contLog' = contLog)]_vars

\* ---- a consumer that reads the buffered chunks at its own pace ----
\* stream.read(): the consumer takes one chunk from the buffer; the _read it
\* causes emits 'read', which has no listener after the first pull.
Consume ==
    /\ Running
    /\ buffered > 0
    /\ \E body \in 0..MaxChunks :
         Commit(emitRead([State EXCEPT !.buffered = @ - 1], body))

NextFlow == Next \/ Consume

SpecFlow == Init /\ [][NextFlow]_vars

\* The last push returned false: the buffer is at or above the high-water
\* mark and the consumer has not pulled since.
NotReady == buffered >= HighWaterMark

\* C25: backpressure: once a push has reported that the consumer is not
\* ready (the buffer is at or above HighWaterMark) the streamer pushes no
\* further chunk until the consumer has pulled; no received chunk is dropped.
C25_Backpressure ==
    [][NotReady => buffered' <= buffered]_vars

\* ---- transforms that emit 'complete' whether or not it is listened to ----
\* The transform emits 'complete' after the streamer has removed its
\* listener: no handler runs.
TransformCompleteUnheard(t) ==
    /\ Running
    /\ kind = "paged"
    /\ trs[t].endCalled /\ ~trs[t].completeEmitted /\ ~trs[t].closeEmitted
    /\ ~trs[t].errored
    /\ trs[t].emitted = Len(trs[t].written)
    /\ ~Listened(trs[t], "complete")
    /\ Commit([State EXCEPT !.trs[t].completeEmitted = TRUE])

NextComplete ==
    \/ Next
    \/ \E t \in DOMAIN trs : TransformCompleteUnheard(t)

SpecComplete == Init /\ [][NextComplete]_vars

\* The url of the page whose body was piped into transform t.
PageOf(t) == reqs[CHOOSE r \in DOMAIN reqs : t \in reqs[r].pipes].desc.url
Piped(t) == \E r \in DOMAIN reqs : t \in reqs[r].pipes

\* C26 (second half): the continuation is given null or a transform's
\* completion result, and a result only if the page's transform emitted it.
C26_NullWithoutComplete ==
    \A i \in DOMAIN contLog :
        /\ contLog[i].data \in {null, CompleteResult}
        /\ contLog[i].data = CompleteResult =>
              \E t \in DOMAIN trs :
                  Piped(t) /\ trs[t].completeEmitted /\ PageOf(t) = contLog[i].url

\* C26: PagedHttpGetReader: when the transform of page N emits a completion
\* signal carrying r, the continuation for page N is invoked with data = r,
\* whatever the order of the transform's 'end' and 'complete'; without a
\* completion signal, or without a transform, data is null.
C26_CompleteResultUsed ==
    /\ C26_NullWithoutComplete
    /\ \A t \in DOMAIN trs :
          (kind = "paged" /\ Piped(t) /\ trs[t].completeEmitted) =>
              \E i \in DOMAIN contLog :
                  contLog[i].url = PageOf(t) /\ contLog[i].data = CompleteResult

\* ---- a continuation that changes page.query in place and replaces
\*      page.headers ----
InitMutating ==
    /\ kind \in {"single", "paged"}
    /\ abortOnError \in BOOLEAN
    /\ useTransform \in BOOLEAN
    /\ lastPage \in (IF kind = "single" THEN {1} ELSE 1..MaxPages)
    /\ nextPageThrows = FALSE
    /\ deferring = FALSE
    /\ nextPageMutates = TRUE
    /\ request = null
    /\ transform = IF kind = "single" /\ useTransform THEN 1 ELSE null
    /\ desc = constructor.desc
    /\ heap = constructor.heap
    /\ readFired = FALSE
    /\ reqs = <<>>
    /\ trs = IF useTransform THEN <<NewTransform>> ELSE <<>>
    /\ out = <<>>
    /\ ended = FALSE
    /\ crashed = FALSE
    /\ destroyed = FALSE
    /\ buffered = 0
    /\ retries = <<>>
    /\ conts = <<>>
    /\ contLog = <<>>
    /\ policyLog = <<>>

SpecMutating == InitMutating /\ [][Next]_vars

\* C27: the query and headers objects the caller passed at construction are
\* never modified: what the continuation changes in place in page.query or
\* page.headers, and what it replaces, are the streamer's own copies.
C27_CallerObjectsUntouched ==
    /\ heap[CallerQuery] = CallerHeap[CallerQuery]
    /\ heap[CallerHeaders] = CallerHeap[CallerHeaders]

C27_Witness ==
    /\ kind = "paged"
    /\ heap[desc.query] # CallerHeap[CallerQuery]
    /\ desc.headers > Len(Paged_constructor.heap)
    /\ Len(reqs) = 2
    /\ reqs[2].desc = desc

\* A page whose response was accepted as 404 with an empty body.
MissingPage(r) == reqs[r].resp = StatusNotFound /\ reqs[r].body = 0

C28_Case ==
    /\ kind = "paged"
    /\ \A r \in DOMAIN reqs :
          /\ reqs[r].resp \in {null, StatusOK, StatusNotFound}
          /\ reqs[r].resp = StatusNotFound => reqs[r].body = 0
    /\ \E r \in DOMAIN reqs : MissingPage(r)
    /\ NoTransportError /\ NoTransformError

\* C28 (first half): a page accepted with an empty body contributes no chunk
\* and, once the transport has reported its end or close (or its transform
\* has ended), the continuation has been invoked for that page.
C28_MissingPageProceeds ==
    kind = "paged" =>
        \A r \in DOMAIN reqs : MissingPage(r) =>
            /\ \A j \in DOMAIN out : out[j] # ChunkEv(Seen(Chunk(r, 1)))
            /\ (~useTransform /\ (reqs[r].ended \/ reqs[r].closed)) =>
                  \E i \in DOMAIN contLog : contLog[i].url = reqs[r].desc.url
            /\ (\E t \in reqs[r].pipes : trs[t].endEmitted) =>
                  \E i \in DOMAIN contLog : contLog[i].url = reqs[r].desc.url

\* C28: PagedHttpGetReader: a page accepted with an empty body (404 under
\* the default policy) contributes no chunk, the continuation is still
\* invoked for it and, when it returns true, the next page is requested; the
\* output is the other pages' bodies in page order followed by one end signal.
C28_MissingPageSkipped ==
    /\ C28_MissingPageProceeds
    /\ C28_Case =>
          /\ ~crashed
          /\ \A r \in DOMAIN reqs : reqs[r].desc.url = r
          /\ IsPrefix(out, PagesUpTo(Len(reqs)) \o <<EndEv>>)
          /\ ended => /\ Len(reqs) = lastPage
                      /\ out = PagesUpTo(lastPage) \o <<EndEv>>

\* C29: PagedHttpGetReader invokes the continuation once per page: no page
\* has two invocations, whether the transport emits 'end' and 'close',
\* 'error' and 'close', or an event after the next page was requested, and
\* there are never more invocations than requests.
C29_OncePerPage ==
    /\ Len(contLog) <= Len(reqs)
    /\ \A i, j \in DOMAIN contLog : i # j => contLog[i].url # contLog[j].url

\* C30 (first half): no streamer handler is registered more than once on a
\* request or on a transform.
C30_RegisteredOnce ==
    /\ \A r \in DOMAIN reqs : \A ev \in DOMAIN reqs[r].on : reqs[r].on[ev] <= 1
    /\ \A t \in DOMAIN trs : \A ev \in DOMAIN trs[t].on : trs[t].on[ev] <= 1

\* C30: listener bookkeeping: no handler is registered twice on a request or
\* transform, and a request or transform that is no longer the current one
\* (detachFromStreams has run for it) has no streamer handler left, so it
\* cannot deliver an event to the streamer.
C30_ListenerBookkeeping ==
    /\ C30_RegisteredOnce
    /\ \A r \in DOMAIN reqs : r # request => ~Attached(reqs[r])
    /\ \A t \in DOMAIN trs : t # transform => ~Attached(trs[t])

\* A chunk value the transform emitted: the transform's output for a chunk
\* written to it.
TransformOutput(v) ==
    \E t \in DOMAIN trs : \E k \in DOMAIN trs[t].written :
        k <= trs[t].emitted /\ v = Transformed(trs[t].written[k])

\* C31: HttpGetReader constructed with a transform: every chunk delivered to
\* the consumer was emitted by that transform and none is a raw transport
\* chunk, also when responses classified Retry preceded the accepted one.
C31_OnlyTransformedChunks ==
    (kind = "single" /\ useTransform) =>
        \A j \in DOMAIN out : out[j].t = "chunk" => TransformOutput(out[j].v)

\* The branch a streamer's onRequestResponse takes for a response: the one it
\* records last in policyLog.
BranchTaken(t) == t.policyLog[Len(t.policyLog)].branch

\* C32: HttpGetReader and PagedHttpGetReader take the same Accept/Retry/Fail
\* branch for every value the policy returns or throws: whenever a request is
\* awaiting its response, both onRequestResponse handlers classify every
\* possible response of it alike.
C32_SameBranch ==
    (request # null /\ reqs[request].resp = null) =>
        \A status \in Statuses :
            LET response == Response(request, status)
            IN BranchTaken(Http_onRequestResponse(State, response))
                 = BranchTaken(Paged_onRequestResponse(State, response))

\* C33: once the stream has been destroyed no new transport request is
\* issued: no step of a started and destroyed stream (the resolution of a
\* pending retry or of a pending continuation result included) adds a request.
\* Whether a stream destroyed before its first pull still emits 'read' is left
\* to the stream library and is not part of the property.
C33_NoRequestAfterDestroy ==
    [][(destroyed /\ readFired) => Len(reqs') = Len(reqs)]_vars

\* C34: PagedHttpGetReader, abortOnError = true: once a transport error has
\* been emitted to the consumer as fatal, no later step (a 'close' of the
\* failed request included) invokes the continuation or issues a request.
C34_AbortStopsPaging ==
    [][(kind = "paged" /\ abortOnError /\ Delivered(ErrorEv(TransportErr)))
          => /\ contLog' = contLog
             /\ Len(reqs') = Len(reqs)]_vars

\* ---- PagedHttpGetReader without a transform, a continuation that returns
\*      true up to the last page, a transport answering 200 or 500, up to
\*      MaxRejectRequests requests ----
InitReject ==
    Init /\ kind = "paged" /\ ~useTransform /\ lastPage = MaxPages /\ ~nextPageThrows

NextReject ==
    \/ ReadUpTo(MaxRejectRequests)
    \/ \E r \in DOMAIN reqs : TransportResponse(r, StatusOK)
    \/ \E r \in DOMAIN reqs : TransportResponse(r, StatusOther)
    \/ \E r \in DOMAIN reqs : TransportData(r)
    \/ \E r \in DOMAIN reqs : TransportEnd(r)
    \/ \E r \in DOMAIN reqs : TransportClose(r)
    \/ NextPageResolveUpTo(MaxRejectRequests)

SpecReject == InitReject /\ [][NextReject]_vars

\* The policy's answer to the response request r has received.
PolicyResult(r) == responseHandler(Response(r, reqs[r].resp))

\* The step in which request r receives a response for which the policy throws.
PolicyThrowsFor(r) ==
    /\ reqs[r].resp = null /\ reqs'[r].resp # null
    /\ responseHandler(Response(r, reqs'[r].resp)).thrown

\* C35: when the policy throws synchronously for a response, that step emits
\* the thrown error to the consumer, clears the request reference and leaves
\* no handler on the request; from then on no handler is on that request, so
\* none of its later events reaches the streamer.
C35_PolicyThrowDetaches ==
    /\ [][\A r \in DOMAIN reqs : PolicyThrowsFor(r) =>
            /\ Len(out') > Len(out)
            /\ out'[Len(out) + 1]
                 = ErrorEv(responseHandler(Response(r, reqs'[r].resp)).error)
            /\ \A j \in (Len(out) + 2)..Len(out') : out'[j] = EndEv
            /\ ended'
            /\ request' = null
            /\ reqs'[r].on = NoListeners]_vars
    /\ [](\A r \in DOMAIN reqs :
            (reqs[r].resp # null /\ PolicyResult(r).thrown)
                => reqs[r].on = NoListeners /\ request # r)

\* The step in which the response of request r is classified Accept.
AcceptStep(r) ==
    /\ reqs[r].resp = null /\ reqs'[r].resp # null
    /\ Len(policyLog') = Len(policyLog) + 1
    /\ policyLog'[Len(policyLog')].branch = "accept"

\* The requests piped into transform t, and the responses accepted so far.
Sources(t) == {r \in DOMAIN reqs : t \in reqs[r].pipes}
Accepts == {i \in DOMAIN policyLog : policyLog[i].branch = "accept"}

C36_Case == kind = "paged" /\ useTransform

\* C36: PagedHttpGetReader with a transformFactory (whose constructor has
\* created one transform that never receives input): the step classifying the
\* response of a request Accept creates a fresh transform and pipes that
\* request into it, no other step creates a transform, and no transform
\* receives input from two different requests.
C36_FreshTransformPerAccept ==
    /\ [][\A r \in DOMAIN reqs : (C36_Case /\ AcceptStep(r)) =>
            /\ Len(trs') = Len(trs) + 1
            /\ trs'[Len(trs')].written = <<>>
            /\ transform' = Len(trs')
            /\ reqs'[r].pipes = {Len(trs')}]_vars
    /\ [][(C36_Case /\ Len(trs') # Len(trs))
            => \E r \in DOMAIN reqs : AcceptStep(r)]_vars
    /\ [](C36_Case =>
            /\ Len(trs) = 1 + Cardinality(Accepts)
            /\ Sources(1) = {} /\ trs[1].written = <<>>
            /\ \A t \in DOMAIN trs :
                  /\ Cardinality(Sources(t)) <= 1
                  /\ \A k \in DOMAIN trs[t].written :
                        \E r \in Sources(t) : \E i \in 1..reqs[r].body :
                            trs[t].written[k] = Chunk(r, i))

\* The stream has reached a terminal outcome: the end signal or an error.
Terminal == ended \/ \E j \in DOMAIN out : out[j].t = "error"

\* The policy has deferred as many responses as there may be requests: the
\* retry that is due would go beyond the requests considered.
DefersOn == retries # <<>> /\ Len(reqs) >= MaxRequests

\* C37: HttpGetReader, for every combination of abortOnError and transform:
\* with a consumer that pulls, a transport that reports a response and then
\* the end (or an error) of every request, a policy that stops deferring and a
\* transform that ends after its input has ended, the stream eventually emits
\* its end signal or an error.
C37_Terminates == <>(Terminal \/ DefersOn)

\* The requests issued for page p, and those of them whose response the
\* policy deferred.
RequestsFor(p) == {r \in DOMAIN reqs : reqs[r].desc.url = p}
DeferredFor(p) == {r \in RequestsFor(p) : reqs[r].resp = StatusTooMany}

\* C38: retries are one-for-one and never make the streamer give up: a step
\* that defers a response or re-issues a deferred request emits nothing and
\* does not end the stream, and once a response of a page has been accepted
\* after k deferred ones, k + 1 requests have been issued for that page.
C38_OneRequestPerDeferral ==
    /\ [][Len(retries') # Len(retries) => out' = out /\ ended' = ended]_vars
    /\ [](\A p \in 1..MaxPages :
            (\E r \in RequestsFor(p) : Accepted(r))
                => Cardinality(RequestsFor(p)) = Cardinality(DeferredFor(p)) + 1)

====
